---- MODULE Spec2Model ----
(***************************************************************************)
(* TinySkiaDisplay (src/src/lib.rs): an embedded-graphics DrawTarget that   *)
(* rasterises into a tiny-skia Pixmap, and the FontTextStyle text renderer  *)
(* (src/src/font/mod.rs).                                                   *)
(*                                                                         *)
(* A pixel of the Pixmap is a sequence of RGBA8 quadruples: <<q>> is a      *)
(* pixel holding exactly q; Append(p, q) is the pixel p after an            *)
(* anti-aliased pass painted q over it with partial coverage (the blended   *)
(* bytes are q mixed over p).  A pass with full coverage and an opaque      *)
(* colour replaces the pixel by <<q>>.                                      *)
(***************************************************************************)
EXTENDS Integers, Sequences, FiniteSets, TLC

VARIABLES
    target_arch,  \* the build's cfg(target_arch): "native" or "wasm32"
    pix_map,      \* TinySkiaDisplay.pix_map: [width, height, data]
    size,         \* TinySkiaDisplay.size
    status,       \* "running", or "panicked" once a call has aborted the process
    pre,          \* pix_map.data as it was before the last call
    last,         \* the last call: its name, arguments and result
    surfaces,     \* the surfaces flip() filled since the last draw call
    ndraws,       \* number of draw calls so far
    font_style_builder,  \* the FontStyleBuilder in hand, if any
    font_style,   \* the FontStyle that build() returned, if any
    calls         \* the calls made on the builder so far, new() first

vars == <<target_arch, pix_map, size, status, pre, last, surfaces, ndraws,
          font_style_builder, font_style, calls>>

\* the font style builder, which no call of the display or of the text
\* renderer touches
builder_vars == <<font_style_builder, font_style, calls>>

----------------------------------------------------------------------------
(* Bounds of the model *)

\* the canvas is Width x Height pixels
Width == 2
Height == 2
\* draw calls per behaviour
MaxDraws == 2
\* flips between two draw calls
MaxFlips == 2
\* stroke widths are 1..MaxStroke
MaxStroke == 2
\* circle radii are 1..MaxRadius
MaxRadius == 2
\* texts have at most MaxLen characters
MaxLen == 2
\* font sizes are 1..MaxFontSize
MaxFontSize == 2
\* setter calls made on one font style builder
MaxSetters == 2

\* bytes per pixel of the RGBA8 buffer (one quadruple is pushed per pixel)
BytesPerPixel == 4
\* the alpha every converted colour carries
OPAQUE == 255
\* the smallest integer an f32 cannot hold: 2^24 + 1
F32Exact == 16777216

\* coordinates given to draw_pixel: one before the canvas, the canvas, one past it
CoordX == -1 .. Width
CoordY == -1 .. Height
\* a coordinate so large that `as f32` rounds it
Big == F32Exact + 1

\* Rgb888 colours the caller draws with (r, g, b)
Colors == { [r |-> 255, g |-> 0, b |-> 0], [r |-> 0, g |-> 128, b |-> 255] }

TRANSPARENT == <<0, 0, 0, 0>>

----------------------------------------------------------------------------
(* f32 arithmetic on the integers the code converts *)

Abs(i) == IF i < 0 THEN -i ELSE i

\* `i as f32`: exact up to 2^24, then round to nearest even (spacing 2 up to 2^25)
AsF32(i) ==
    IF Abs(i) <= F32Exact THEN i
    ELSE LET a == Abs(i)
             lo == (a \div 2) * 2
             r == IF a = lo THEN a
                  ELSE IF lo % 4 = 0 THEN lo ELSE lo + 2
         IN  IF i < 0 THEN -r ELSE r

\* f32 addition of two values that are integers
F32Add(a, b) == AsF32(a + b)

----------------------------------------------------------------------------
(* Option *)

None == [some |-> FALSE]
Some(v) == [some |-> TRUE, v |-> v]

----------------------------------------------------------------------------
(* Colour model *)

\* a mutant of rgba: the alpha is taken from a colour channel
rgba_AlphaFromChannel(color) ==
    IF target_arch = "wasm32"
    THEN <<color.r, color.g, color.b, color.r>>
    ELSE <<color.b, color.g, color.r, color.r>>

\* fn rgba: (b, g, r, 255) natively, (r, g, b, 255) on wasm32
rgba(color) ==
    IF target_arch = "wasm32"
    THEN <<color.r, color.g, color.b, OPAQUE>>
    ELSE <<color.b, color.g, color.r, OPAQUE>>

\* fn convert_color_to_paint: an anti-aliased paint of the converted colour
convert_color_to_paint(color) ==
    [color |-> rgba(color), anti_alias |-> TRUE]

----------------------------------------------------------------------------
(* tiny-skia geometry, as the code uses it *)

\* Rect::from_ltrb: None unless left <= right and top <= bottom
Rect_from_ltrb(l, t, r, b) ==
    IF l <= r /\ t <= b
    THEN Some([left |-> l, top |-> t, right |-> r, bottom |-> b])
    ELSE None

\* Rect::from_xywh(x, y, w, h) = from_ltrb(x, y, w + x, h + y) in f32
Rect_from_xywh(x, y, w, h) == Rect_from_ltrb(x, y, F32Add(w, x), F32Add(h, y))

----------------------------------------------------------------------------
(* The pixel buffer *)

\* Pixmap::new(width, height): None for an empty size, else zero-filled
Pixmap_new(width, height) ==
    IF width = 0 \/ height = 0 THEN None
    ELSE Some([width |-> width, height |-> height,
               data |-> [i \in 1 .. (width * height) |-> <<TRANSPARENT>>]])

\* position of the i-th pixel of the row-major buffer
PixelX(pm, i) == (i - 1) % pm.width
PixelY(pm, i) == (i - 1) \div pm.width

\* index of pixel (x, y), for 0 <= x < width and 0 <= y < height
PixelIndex(pm, x, y) == y * pm.width + x + 1

InCanvas(pm, x, y) == 0 <= x /\ x < pm.width /\ 0 <= y /\ y < pm.height

\* Pixmap::data().len()
DataLen(pm) == Len(pm.data) * BytesPerPixel

\* source-over of colour q with the given coverage onto pixel p (q is opaque)
Blend(p, q, cov) ==
    CASE cov = "full" -> <<q>>
      [] cov = "none" -> p
      [] OTHER -> Append(p, q)

\* one rasterisation pass: paint.color over every pixel with coverage Cov(x, y),
\* clipped to the pixmap
Composite(pm, Cov(_, _), paint) ==
    [pm EXCEPT !.data =
        [i \in 1 .. Len(pm.data) |->
            Blend(pm.data[i], paint.color, Cov(PixelX(pm, i), PixelY(pm, i)))]]

\* coverage of pixel (px, py) by an integer-aligned rectangle
RectCoverage(rect, px, py) ==
    IF rect.left <= px /\ px + 1 <= rect.right
       /\ rect.top <= py /\ py + 1 <= rect.bottom
    THEN "full" ELSE "none"

\* Pixmap::fill_rect with the identity transform and no clip mask
Pixmap_fill_rect(pm, rect, paint) ==
    LET Cov(px, py) == RectCoverage(rect, px, py)
    IN  Composite(pm, Cov, paint)

----------------------------------------------------------------------------
(* Paths and their rasterisation (tiny-skia fill_path / stroke_path).        *)
(* Geometry is measured in half pixels, so that a stroke of integer width    *)
(* around integer coordinates has integer edges: pixel (px, py) is the       *)
(* square [2px, 2px + 2] x [2py, 2py + 2].                                   *)

\* a box in half pixels; it is empty unless l < r and t < b
Box(l, t, r, b) == [l |-> l, t |-> t, r |-> r, b |-> b]
EmptyBox == Box(0, 0, 0, 0)
BoxIsEmpty(box) == ~(box.l < box.r /\ box.t < box.b)

\* the pixel lies wholly inside the box
PixelInBox(box, px, py) ==
    /\ box.l <= 2 * px /\ 2 * px + 2 <= box.r
    /\ box.t <= 2 * py /\ 2 * py + 2 <= box.b

\* the pixel and the box share area
PixelMeetsBox(box, px, py) ==
    /\ ~BoxIsEmpty(box)
    /\ box.l < 2 * px + 2 /\ 2 * px < box.r
    /\ box.t < 2 * py + 2 /\ 2 * py < box.b

\* coverage of a pixel by the region outer minus hole
RingCoverage(outer, hole, px, py) ==
    IF ~PixelMeetsBox(outer, px, py) \/ PixelInBox(hole, px, py) THEN "none"
    ELSE IF PixelInBox(outer, px, py) /\ ~PixelMeetsBox(hole, px, py) THEN "full"
    ELSE "partial"

Max(a, b) == IF a >= b THEN a ELSE b
Min(a, b) == IF a <= b THEN a ELSE b

\* squared distance (half pixels) from (cx, cy) to the farthest corner of the pixel
FarSq(cx, cy, px, py) ==
    LET dx == Max(Abs(2 * px - 2 * cx), Abs(2 * px + 2 - 2 * cx))
        dy == Max(Abs(2 * py - 2 * cy), Abs(2 * py + 2 - 2 * cy))
    IN  dx * dx + dy * dy

\* squared distance (half pixels) from (cx, cy) to the nearest point of the pixel
NearSq(cx, cy, px, py) ==
    LET dx == IF 2 * cx < 2 * px THEN 2 * px - 2 * cx
              ELSE IF 2 * cx > 2 * px + 2 THEN 2 * cx - 2 * px - 2 ELSE 0
        dy == IF 2 * cy < 2 * py THEN 2 * py - 2 * cy
              ELSE IF 2 * cy > 2 * py + 2 THEN 2 * cy - 2 * py - 2 ELSE 0
    IN  dx * dx + dy * dy

\* coverage of a pixel by the annulus of radii inner < outer (half pixels)
\* around (cx, cy); inner <= 0 is a disc
AnnulusCoverage(cx, cy, inner, outer, px, py) ==
    LET far == FarSq(cx, cy, px, py)
        near == NearSq(cx, cy, px, py)
    IN  IF near >= outer * outer \/ (inner > 0 /\ far <= inner * inner) THEN "none"
        ELSE IF far <= outer * outer /\ (inner <= 0 \/ near >= inner * inner) THEN "full"
        ELSE "partial"

\* FillRule::Winding fill of a path: a line encloses no area, a rectangle its
\* interior, a circle its disc
FillCoverage(path, px, py) ==
    CASE path.kind = "line" -> "none"
      [] path.kind = "rect" ->
            RingCoverage(Box(2 * path.left, 2 * path.top, 2 * path.right, 2 * path.bottom),
                         EmptyBox, px, py)
      [] path.kind = "circle" ->
            AnnulusCoverage(path.cx, path.cy, 0, 2 * path.r, px, py)

\* the outline of a stroke of width w (Stroke::default(): butt caps, miter
\* joins): a band of w/2 on either side of the path
StrokeCoverage(path, w, px, py) ==
    CASE path.kind = "line" ->
            IF path.y0 = path.y1
            THEN RingCoverage(Box(2 * Min(path.x0, path.x1), 2 * path.y0 - w,
                                  2 * Max(path.x0, path.x1), 2 * path.y0 + w),
                              EmptyBox, px, py)
            ELSE RingCoverage(Box(2 * path.x0 - w, 2 * Min(path.y0, path.y1),
                                  2 * path.x0 + w, 2 * Max(path.y0, path.y1)),
                              EmptyBox, px, py)
      [] path.kind = "rect" ->
            LET l == 2 * path.left   t == 2 * path.top
                r == 2 * path.right  b == 2 * path.bottom
            IN  IF l = r /\ t = b THEN "none"
                ELSE IF l = r THEN RingCoverage(Box(l - w, t, l + w, b), EmptyBox, px, py)
                ELSE IF t = b THEN RingCoverage(Box(l, t - w, r, t + w), EmptyBox, px, py)
                ELSE RingCoverage(Box(l - w, t - w, r + w, b + w),
                                  Box(l + w, t + w, r - w, b - w), px, py)
      [] path.kind = "circle" ->
            AnnulusCoverage(path.cx, path.cy, 2 * path.r - w, 2 * path.r + w, px, py)

\* fn TinySkiaDisplay::fill: fill_path with the colour's paint
fill(pm, path, color) ==
    LET Cov(px, py) == FillCoverage(path, px, py)
    IN  Composite(pm, Cov, convert_color_to_paint(color))

\* fn TinySkiaDisplay::stroke: stroke_path with the colour's paint and the width
stroke(pm, path, color, stroke_width) ==
    LET Cov(px, py) == StrokeCoverage(path, stroke_width, px, py)
    IN  Composite(pm, Cov, convert_color_to_paint(color))

\* a mutant of convert_rect: bottom_right is taken as the last pixel of the
\* rectangle, not the one past it
convert_rect_Inclusive(rect) ==
    LET width == AsF32(rect.bottom_right.x - rect.top_left.x + 1)
        height == AsF32(rect.bottom_right.y - rect.top_left.y + 1)
    IN  Rect_from_xywh(AsF32(rect.top_left.x), AsF32(rect.top_left.y), width, height)

\* a mutant of convert_rect: a rectangle must have a positive width and height
convert_rect_Strict(rect) ==
    LET r == Rect_from_xywh(AsF32(rect.top_left.x), AsF32(rect.top_left.y),
                            AsF32(rect.bottom_right.x - rect.top_left.x),
                            AsF32(rect.bottom_right.y - rect.top_left.y))
    IN  IF r.some /\ r.v.left < r.v.right /\ r.v.top < r.v.bottom THEN r ELSE None

\* fn convert_rect: width and height are the corner differences
convert_rect(rect) ==
    LET width == AsF32(rect.bottom_right.x - rect.top_left.x)
        height == AsF32(rect.bottom_right.y - rect.top_left.y)
    IN  Rect_from_xywh(AsF32(rect.top_left.x), AsF32(rect.top_left.y), width, height)

\* fn convert_rect_path: PathBuilder::from_rect of the converted rectangle
convert_rect_path(rect) ==
    LET r == convert_rect(rect)
    IN  IF ~r.some THEN None
        ELSE Some([kind |-> "rect", left |-> r.v.left, top |-> r.v.top,
                   right |-> r.v.right, bottom |-> r.v.bottom])

\* fn convert_circle
convert_circle(circle) ==
    <<AsF32(circle.center.x), AsF32(circle.center.y), AsF32(circle.radius)>>

\* fn convert_circle_path: PathBuilder::from_circle
convert_circle_path(circle) ==
    LET c == convert_circle(circle)
    IN  Some([kind |-> "circle", cx |-> c[1], cy |-> c[2], r |-> c[3]])

\* fn convert_line_path: move_to(start), line_to(end), finish
convert_line_path(line) ==
    Some([kind |-> "line", x0 |-> AsF32(line.start.x), y0 |-> AsF32(line.start.y),
          x1 |-> AsF32(line.end.x), y1 |-> AsF32(line.end.y)])

----------------------------------------------------------------------------
(* TinySkiaDisplay *)

Init ==
    /\ target_arch \in {"native", "wasm32"}
    /\ pix_map = Pixmap_new(Width, Height).v
    /\ size = [width |-> Width, height |-> Height]
    /\ status = "running"
    /\ pre = pix_map.data
    /\ last = [op |-> "new", ret |-> "Ok"]
    /\ surfaces = <<>>
    /\ ndraws = 0
    /\ font_style_builder = None
    /\ font_style = None
    /\ calls = << >>

\* every draw call: the buffer before it is remembered, the surfaces are stale
Drawn(op, args, ret, pm) ==
    /\ status = "running"
    /\ ndraws < MaxDraws
    /\ pix_map' = pm
    /\ pre' = pix_map.data
    /\ last' = [op |-> op, args |-> args, ret |-> ret]
    /\ surfaces' = <<>>
    /\ ndraws' = ndraws + 1
    /\ UNCHANGED <<builder_vars, target_arch, size, status>>

\* a mutant of draw_pixel_result: the pixel is written at its row-major index
\* without Rect clipping
draw_pixel_result_Unchecked(x, y, color) ==
    LET i == y * pix_map.width + x + 1
    IN  [ret |-> "Ok",
         pm |-> IF i \in 1 .. Len(pix_map.data)
                THEN [pix_map EXCEPT !.data[i] = <<rgba(color)>>]
                ELSE pix_map]

\* fn draw_pixel: fill_rect of the 1x1 rectangle at the pixel
draw_pixel_result(x, y, color) ==
    LET rect == Rect_from_xywh(AsF32(x), AsF32(y), 1, 1)
    IN  IF ~rect.some
        THEN [ret |-> "Err", pm |-> pix_map]
        ELSE [ret |-> "Ok",
              pm |-> Pixmap_fill_rect(pix_map, rect.v, convert_color_to_paint(color))]

draw_pixel ==
    \E x \in CoordX \cup {Big, -Big}, y \in CoordY \cup {Big, -Big}, color \in Colors :
        LET r == draw_pixel_result(x, y, color)
        IN  Drawn("draw_pixel", [x |-> x, y |-> y, color |-> color], r.ret, r.pm)

----------------------------------------------------------------------------
(* Inputs of the draw calls *)

Point(x, y) == [x |-> x, y |-> y]

FillColor == CHOOSE c \in Colors : c.r = 255
StrokeColor == CHOOSE c \in Colors : c.r = 0

\* PrimitiveStyle: fill_color, stroke_color, stroke_width (0 by default)
Styles ==
    { [fill_color |-> f, stroke_color |-> None, stroke_width |-> 0] :
        f \in {None, Some(FillColor)} }
    \cup
    { [fill_color |-> f, stroke_color |-> Some(StrokeColor), stroke_width |-> w] :
        f \in {None, Some(FillColor)}, w \in 1 .. MaxStroke }

\* corners of rectangles: top_left before or inside the canvas, bottom_right
\* inside or past it, so that widths and heights are negative, zero and positive
TopLefts == { Point(x, y) : x \in -1 .. (Width - 1), y \in -1 .. (Height - 1) }
BottomRights == { Point(x, y) : x \in {0, 1, Width + 1}, y \in {0, 1, Height + 1} }
Rectangles == { [top_left |-> tl, bottom_right |-> br] : tl \in TopLefts, br \in BottomRights }

\* horizontal and vertical lines
Lines ==
    { [start |-> s, end |-> Point(s.x + d, s.y)] : s \in TopLefts, d \in {0, 1, Width + 1} }
    \cup
    { [start |-> s, end |-> Point(s.x, s.y + d)] : s \in TopLefts, d \in {0, 1, Height + 1} }

Circles ==
    { [center |-> Point(x, y), radius |-> r] :
        x \in 0 .. Width, y \in 0 .. Height, r \in 1 .. MaxRadius }

\* images: a declared size and the pixels the image yields, row by row; an image
\* whose data is short yields fewer pixels than width * height
ImageSizes == { <<Width, 1>>, <<1, Height>> }
Images ==
    UNION { { [width |-> wh[1], height |-> wh[2], pixels |-> px] :
                px \in UNION { [1 .. n -> Colors] : n \in { wh[1] * wh[2] - 1, wh[1] * wh[2] } } } :
            wh \in ImageSizes }

----------------------------------------------------------------------------
(* The draw calls of impl DrawTarget for TinySkiaDisplay *)

\* fn draw_line
draw_line_result(line, style) ==
    LET path == convert_line_path(line)
    IN  IF ~path.some THEN [ret |-> "Err", pm |-> pix_map]
        ELSE LET filled == IF style.fill_color.some
                           THEN fill(pix_map, path.v, style.fill_color.v)
                           ELSE pix_map
                 stroked == IF style.stroke_color.some
                            THEN stroke(filled, path.v, style.stroke_color.v, style.stroke_width)
                            ELSE filled
             IN  [ret |-> "Ok", pm |-> stroked]

draw_line ==
    \E line \in Lines, style \in Styles :
        LET r == draw_line_result(line, style)
        IN  Drawn("draw_line", [line |-> line, style |-> style], r.ret, r.pm)

\* fn draw_rectangle: the fill goes through fill_rect, the stroke through the path
draw_rectangle_result(rectangle, style) ==
    LET rect == convert_rect(rectangle)
        rect_path == convert_rect_path(rectangle)
    IN  IF ~rect.some \/ ~rect_path.some THEN [ret |-> "Err", pm |-> pix_map]
        ELSE LET filled == IF style.fill_color.some
                           THEN Pixmap_fill_rect(pix_map, rect.v,
                                                 convert_color_to_paint(style.fill_color.v))
                           ELSE pix_map
                 stroked == IF style.stroke_color.some
                            THEN stroke(filled, rect_path.v, style.stroke_color.v,
                                        style.stroke_width)
                            ELSE filled
             IN  [ret |-> "Ok", pm |-> stroked]

draw_rectangle ==
    \E rectangle \in Rectangles, style \in Styles :
        LET r == draw_rectangle_result(rectangle, style)
        IN  Drawn("draw_rectangle", [rectangle |-> rectangle, style |-> style], r.ret, r.pm)

\* a mutant of draw_circle_result: the stroke pass runs before the fill pass
draw_circle_result_StrokeFirst(circle, style) ==
    LET path == convert_circle_path(circle)
        stroked == IF style.stroke_color.some
                   THEN stroke(pix_map, path.v, style.stroke_color.v, style.stroke_width)
                   ELSE pix_map
        filled == IF style.fill_color.some
                  THEN fill(stroked, path.v, style.fill_color.v)
                  ELSE stroked
    IN  [ret |-> "Ok", pm |-> filled]

\* fn draw_circle
draw_circle_result(circle, style) ==
    LET path == convert_circle_path(circle)
    IN  IF ~path.some THEN [ret |-> "Err", pm |-> pix_map]
        ELSE LET filled == IF style.fill_color.some
                           THEN fill(pix_map, path.v, style.fill_color.v)
                           ELSE pix_map
                 stroked == IF style.stroke_color.some
                            THEN stroke(filled, path.v, style.stroke_color.v, style.stroke_width)
                            ELSE filled
             IN  [ret |-> "Ok", pm |-> stroked]

draw_circle ==
    \E circle \in Circles, style \in Styles :
        LET r == draw_circle_result(circle, style)
        IN  Drawn("draw_circle", [circle |-> circle, style |-> style], r.ret, r.pm)

\* PixmapRef::from_bytes(bytes, width, height): None unless the byte count is
\* width * height * 4
PixmapRef_from_bytes(pixels, width, height) ==
    IF width = 0 \/ height = 0 \/ Len(pixels) * BytesPerPixel # width * height * BytesPerPixel
    THEN None
    ELSE Some([width |-> width, height |-> height, data |-> pixels])

\* Pixmap::draw_pixmap with PixmapPaint::default(): the opaque source block is
\* copied to (x, y), clipped to the pixmap
Pixmap_draw_pixmap(pm, x, y, src) ==
    [pm EXCEPT !.data =
        [i \in 1 .. Len(pm.data) |->
            LET sx == PixelX(pm, i) - x
                sy == PixelY(pm, i) - y
            IN  IF 0 <= sx /\ sx < src.width /\ 0 <= sy /\ sy < src.height
                THEN <<src.data[sy * src.width + sx + 1]>>
                ELSE pm.data[i]]]

\* a mutant of draw_image_result: the image's pixmap replaces the display's
draw_image_result_Resizing(image, top_left) ==
    LET pixels == [k \in 1 .. Len(image.pixels) |-> <<rgba(image.pixels[k])>>]
        src == PixmapRef_from_bytes(pixels, image.width, image.height)
    IN  IF ~src.some THEN [ret |-> "Err", pm |-> pix_map]
        ELSE [ret |-> "Ok", pm |-> src.v]

\* a mutant of draw_image_result: the pixels are pushed as (r, g, b, 255)
\* without the colour conversion
draw_image_result_Unconverted(image, top_left) ==
    LET pixels == [k \in 1 .. Len(image.pixels) |->
                      <<image.pixels[k].r, image.pixels[k].g, image.pixels[k].b, OPAQUE>>]
        src == PixmapRef_from_bytes(pixels, image.width, image.height)
    IN  IF ~src.some THEN [ret |-> "Err", pm |-> pix_map]
        ELSE [ret |-> "Ok", pm |-> Pixmap_draw_pixmap(pix_map, top_left.x, top_left.y, src.v)]

\* a mutant of draw_image_result: each pixel is written as it is converted, and
\* the size of the block is checked afterwards
draw_image_result_WriteThenCheck(image, top_left) ==
    LET pixels == [k \in 1 .. Len(image.pixels) |-> rgba(image.pixels[k])]
        src == PixmapRef_from_bytes(pixels, image.width, image.height)
        written ==
            [pix_map EXCEPT !.data =
                [i \in 1 .. Len(pix_map.data) |->
                    LET sx == PixelX(pix_map, i) - top_left.x
                        sy == PixelY(pix_map, i) - top_left.y
                        k == sy * image.width + sx + 1
                    IN  IF 0 <= sx /\ sx < image.width /\ 0 <= sy /\ k <= Len(pixels)
                        THEN <<pixels[k]>> ELSE pix_map.data[i]]]
    IN  IF ~src.some THEN [ret |-> "Err", pm |-> written]
        ELSE [ret |-> "Ok", pm |-> written]

\* fn draw_image: every pixel of the image is converted, then the block is drawn
draw_image_result(image, top_left) ==
    LET pixels == [k \in 1 .. Len(image.pixels) |-> rgba(image.pixels[k])]
        src == PixmapRef_from_bytes(pixels, image.width, image.height)
    IN  IF ~src.some THEN [ret |-> "Err", pm |-> pix_map]
        ELSE [ret |-> "Ok", pm |-> Pixmap_draw_pixmap(pix_map, top_left.x, top_left.y, src.v)]

draw_image ==
    \E image \in Images, top_left \in TopLefts :
        LET r == draw_image_result(image, top_left)
        IN  Drawn("draw_image", [image |-> image, top_left |-> top_left], r.ret, r.pm)

\* fn data: the bytes of the pixel buffer (read-only)
data == pix_map.data

\* fn size (read-only)
size_ == size

\* a mutant of flip_data: the frame buffer is cleared after the copy
flip_data_Clearing(pm) ==
    [pm EXCEPT !.data = [i \in 1 .. Len(pm.data) |-> <<TRANSPARENT>>]]

\* the pixel buffer after flip: untouched
flip_data(pm) == pm

\* fn flip: surface.copy_from_slice(data) panics unless the lengths are equal
flip ==
    /\ status = "running"
    /\ Len(surfaces) < MaxFlips
    /\ \E surface_len \in { DataLen(pix_map) - 1, DataLen(pix_map), DataLen(pix_map) + 1 } :
          IF surface_len = DataLen(pix_map)
          THEN /\ surfaces' = Append(surfaces, pix_map.data)
               /\ pix_map' = flip_data(pix_map)
               /\ pre' = pix_map.data
               /\ last' = [op |-> "flip", args |-> [surface_len |-> surface_len], ret |-> "Ok"]
               /\ UNCHANGED status
          ELSE /\ status' = "panicked"
               /\ last' = [op |-> "flip", args |-> [surface_len |-> surface_len], ret |-> "Panic"]
               /\ UNCHANGED <<pix_map, pre, surfaces>>
    /\ UNCHANGED <<builder_vars, target_arch, size, ndraws>>

----------------------------------------------------------------------------
(* Text: the font, its layout and the glyph tracer.                          *)
(* Horizontal metrics are in half pixels, so that an advance can be a        *)
(* fraction of a pixel and ceil() rounds.                                     *)

\* characters of the font: "a" has an outline, " " has none
Chars == {"a", " "}

\* h_metrics().advance_width of a glyph at the scale font_size, in half pixels
AdvanceWidth(ch, font_size) == IF ch = "a" THEN 3 * font_size ELSE font_size

\* the outline the font reports for a glyph, relative to its bounding box
Outline(ch) ==
    IF ch = "a"
    THEN << [op |-> "move_to", x |-> 0, y |-> 0],
            [op |-> "line_to", x |-> 1, y |-> 0],
            [op |-> "quad_to", x1 |-> 1, y1 |-> 1, x |-> 0, y |-> 1] >>
    ELSE << >>

\* ceil and floor of a value in half pixels, in pixels
Ceil(h) == (h + 1) \div 2
Floor(h) == h \div 2

RECURSIVE CaretAt(_, _, _)
\* the caret before the k-th glyph: the sum of the advances before it
CaretAt(text, k, font_size) ==
    IF k <= 1 THEN 0
    ELSE CaretAt(text, k - 1, font_size) + AdvanceWidth(text[k - 1], font_size)

\* Font::layout: one positioned glyph per character, left to right;
\* pixel_bounding_box() is None for a glyph without an outline
layout(text, font_size) ==
    [k \in 1 .. Len(text) |->
        [ch |-> text[k],
         position_x |-> CaretAt(text, k, font_size),
         advance_width |-> AdvanceWidth(text[k], font_size),
         pixel_bounding_box |->
            IF Outline(text[k]) # << >>
            THEN Some([min_x |-> Floor(CaretAt(text, k, font_size)), min_y |-> 0])
            ELSE None]]

\* GlyphTracer::move_to / line_to / quad_to: the segment, translated by the
\* tracer's position, is appended to the path builder
GlyphTracer_trace(tracer, seg) ==
    [tracer EXCEPT !.path_builder =
        Append(@,
            IF seg.op = "quad_to"
            THEN [op |-> seg.op, x1 |-> tracer.position.x + seg.x1,
                  y1 |-> tracer.position.y + seg.y1,
                  x |-> tracer.position.x + seg.x, y |-> tracer.position.y + seg.y]
            ELSE [op |-> seg.op, x |-> tracer.position.x + seg.x,
                  y |-> tracer.position.y + seg.y])]

RECURSIVE build_outline(_, _, _)
\* PositionedGlyph::build_outline: the glyph's outline is fed to the tracer
build_outline(tracer, outline, k) ==
    IF k > Len(outline) THEN tracer
    ELSE build_outline(GlyphTracer_trace(tracer, outline[k]), outline, k + 1)

\* DecorationColor
DecorationNone == [kind |-> "None"]
DecorationTextColor == [kind |-> "TextColor"]
DecorationCustom(c) == [kind |-> "Custom", c |-> c]

\* fn resolve_decoration_color
resolve_decoration_color(style, color) ==
    CASE color.kind = "None" -> None
      [] color.kind = "TextColor" -> style.text_color
      [] color.kind = "Custom" -> Some(color.c)

\* DrawTarget::fill_solid(Rectangle::new(position, Size::new(width, height))):
\* every pixel of the area inside the target is set to the colour
fill_solid(pm, position, width, height, color) ==
    [pm EXCEPT !.data =
        [i \in 1 .. Len(pm.data) |->
            IF /\ position.x <= PixelX(pm, i) /\ PixelX(pm, i) < position.x + width
               /\ position.y <= PixelY(pm, i) /\ PixelY(pm, i) < position.y + height
            THEN <<rgba(color)>> ELSE pm.data[i]]]

\* a drawing in progress: the target and the passes painted on it so far
Painted(t, pass, pm) == [pm |-> pm, passes |-> Append(t.passes, pass)]

\* fn draw_background
draw_background(style, width, position, t) ==
    IF width = 0 THEN t
    ELSE IF style.background_color.some
    THEN Painted(t, "background",
                 fill_solid(t.pm, position, width, style.font_size, style.background_color.v))
    ELSE t

\* fn draw_strikethrough
draw_strikethrough(style, width, position, t) ==
    LET c == resolve_decoration_color(style, style.strikethrough_color)
    IN  IF c.some
        THEN Painted(t, "strikethrough",
                     fill_solid(t.pm, position, width, style.font_size, c.v))
        ELSE t

\* fn draw_underline
draw_underline(style, width, position, t) ==
    LET c == resolve_decoration_color(style, style.underline_color)
    IN  IF c.some
        THEN Painted(t, "underline",
                     fill_solid(t.pm, position, width, style.font_size, c.v))
        ELSE t

RECURSIVE draw_string_glyphs(_, _, _, _)
\* the glyph loop of draw_string: a glyph without a bounding box is skipped;
\* the others are traced, move p and add ceil(position + advance) to width
draw_string_glyphs(glyphs, k, position, acc) ==
    IF k > Len(glyphs) THEN acc
    ELSE LET g == glyphs[k]
         IN  IF ~g.pixel_bounding_box.some
             THEN draw_string_glyphs(glyphs, k + 1, position, acc)
             ELSE LET gpos == [x |-> g.pixel_bounding_box.v.min_x + position.x,
                               y |-> g.pixel_bounding_box.v.min_y + position.y]
                      tracer == build_outline([acc.glyph_tracer EXCEPT !.position = gpos],
                                              Outline(g.ch), 1)
                  IN  draw_string_glyphs(glyphs, k + 1, position,
                          [glyph_tracer |-> tracer,
                           p |-> Point(gpos.x, acc.p.y),
                           width |-> acc.width + Ceil(g.position_x + g.advance_width)])

\* fn draw_string: the glyphs are traced into the tracer's path builder, then the
\* background, the strikethrough and the underline are painted on the target;
\* the traced path is dropped without being filled
draw_string_result(style, text, position) ==
    LET glyphs == layout(text, style.font_size)
        traced == draw_string_glyphs(glyphs, 1, position,
                      [glyph_tracer |-> [path_builder |-> << >>, position |-> Point(0, 0)],
                       p |-> position, width |-> 0])
        t0 == [pm |-> pix_map, passes |-> << >>]
        t1 == draw_background(style, traced.width, position, t0)
        t2 == draw_strikethrough(style, traced.width, position, t1)
        t3 == draw_underline(style, traced.width, position, t2)
    IN  [ret |-> "Ok", p |-> traced.p, width |-> traced.width,
         path |-> traced.glyph_tracer.path_builder,
         passes |-> t3.passes, pm |-> t3.pm]

\* fn measure_string: the width is ceil(position + advance) of the last glyph
measure_string(style, text, position) ==
    LET glyphs == layout(text, style.font_size)
        width == IF Len(glyphs) = 0 THEN 0
                 ELSE Ceil(glyphs[Len(glyphs)].position_x + glyphs[Len(glyphs)].advance_width)
    IN  [bounding_box |-> [top_left |-> position,
                           size |-> [width |-> width, height |-> style.font_size]],
         next_position |-> Point(position.x + width, position.y)]

\* texts of at most MaxLen characters
Texts == UNION { [1 .. n -> Chars] : n \in 0 .. MaxLen }

\* FontTextStyle values the builder can produce
TextStyles ==
    { [text_color |-> tc, background_color |-> bg, underline_color |-> ul,
       strikethrough_color |-> st, font_size |-> fs] :
        tc \in {None, Some(FillColor)},
        bg \in {None, Some(StrokeColor)},
        ul \in {DecorationNone, DecorationTextColor},
        st \in {DecorationNone, DecorationCustom(StrokeColor)},
        fs \in 1 .. MaxFontSize }

TextPositions == { Point(0, 0), Point(-1, 1) }

draw_string ==
    \E style \in TextStyles, text \in Texts, position \in TextPositions :
        LET r == draw_string_result(style, text, position)
        IN  /\ status = "running"
            /\ ndraws < MaxDraws
            /\ pix_map' = r.pm
            /\ pre' = pix_map.data
            /\ last' = [op |-> "draw_string", ret |-> r.ret,
                        args |-> [style |-> style, text |-> text, position |-> position],
                        p |-> r.p, width |-> r.width, path |-> r.path,
                        passes |-> r.passes]
            /\ ndraws' = ndraws + 1
            /\ UNCHANGED <<builder_vars, target_arch, size, status, surfaces>>

\* fn draw_whitespace: todo!(), whatever the style (self is not read)
draw_whitespace ==
    \E width \in 0 .. Width, position \in TextPositions :
        /\ status = "running"
        /\ status' = "panicked"
        /\ last' = [op |-> "draw_whitespace", ret |-> "Panic",
                    args |-> [width |-> width, position |-> position]]
        /\ UNCHANGED <<builder_vars, target_arch, pix_map, size, pre, surfaces, ndraws>>

TextNext ==
    \/ draw_string
    \/ draw_whitespace

\* the text renderer drawing on a target
TextSpec == Init /\ [][TextNext]_vars

----------------------------------------------------------------------------
(* FontStyle and its builder (font/font_style.rs) *)

\* font families and pixel sizes the caller builds styles with
FontFamilies == {"my_font", "other_font"}
PixelSizes == 0 .. MaxFontSize

\* fn FontStyle::new
FontStyle_new(font_family, text_color, pixel_size) ==
    [font_family |-> font_family, text_color |-> Some(text_color),
     pixel_size |-> pixel_size]

\* fn FontStyleBuilder::new
FontStyleBuilder_new(font_family) ==
    [style |-> [font_family |-> font_family, text_color |-> None, pixel_size |-> 0]]

\* fn FontStyleBuilder::text_color
FontStyleBuilder_text_color(self, text_color) ==
    [self EXCEPT !.style.text_color = Some(text_color)]

\* a mutant of FontStyleBuilder_pixel_size: the setter starts from a fresh style
\* of the same family, which forgets the text colour
FontStyleBuilder_pixel_size_Fresh(self, pixel_size) ==
    [style |-> [font_family |-> self.style.font_family, text_color |-> None,
                pixel_size |-> pixel_size]]

\* fn FontStyleBuilder::pixel_size
FontStyleBuilder_pixel_size(self, pixel_size) ==
    [self EXCEPT !.style.pixel_size = pixel_size]

\* fn FontStyleBuilder::build
FontStyleBuilder_build(self) == self.style

\* FontStyleBuilder::new(font_family) is called
call_new ==
    \E font_family \in FontFamilies :
        /\ ~font_style_builder.some /\ ~font_style.some
        /\ font_style_builder' = Some(FontStyleBuilder_new(font_family))
        /\ calls' = <<[op |-> "new", font_family |-> font_family]>>
        /\ UNCHANGED <<font_style, target_arch, pix_map, size, status, pre, last,
                       surfaces, ndraws>>

\* builder.text_color(text_color) is called: the builder is moved in and out
call_text_color ==
    \E text_color \in Colors :
        /\ font_style_builder.some
        /\ Len(calls) <= MaxSetters
        /\ font_style_builder' =
              Some(FontStyleBuilder_text_color(font_style_builder.v, text_color))
        /\ calls' = Append(calls, [op |-> "text_color", text_color |-> text_color])
        /\ UNCHANGED <<font_style, target_arch, pix_map, size, status, pre, last,
                       surfaces, ndraws>>

\* builder.pixel_size(pixel_size) is called
call_pixel_size ==
    \E pixel_size \in PixelSizes :
        /\ font_style_builder.some
        /\ Len(calls) <= MaxSetters
        /\ font_style_builder' =
              Some(FontStyleBuilder_pixel_size(font_style_builder.v, pixel_size))
        /\ calls' = Append(calls, [op |-> "pixel_size", pixel_size |-> pixel_size])
        /\ UNCHANGED <<font_style, target_arch, pix_map, size, status, pre, last,
                       surfaces, ndraws>>

\* builder.build() is called: the builder is consumed
call_build ==
    /\ font_style_builder.some
    /\ font_style' = Some(FontStyleBuilder_build(font_style_builder.v))
    /\ font_style_builder' = None
    /\ UNCHANGED <<calls, target_arch, pix_map, size, status, pre, last,
                   surfaces, ndraws>>

BuilderNext ==
    \/ call_new
    \/ call_text_color
    \/ call_pixel_size
    \/ call_build

\* one font style builder, from new() to build()
BuilderSpec == Init /\ [][BuilderNext]_vars

----------------------------------------------------------------------------
(* Properties *)

Blank == [i \in 1 .. (Width * Height) |-> <<TRANSPARENT>>]

PixelIndices == 1 .. Len(pix_map.data)

IsShape(op) == op \in {"draw_line", "draw_rectangle", "draw_circle"}

\* C1: draw_pixel at a position outside [0,W) x [0,H) returns Ok and leaves
\* every byte of the pixel buffer unchanged
C1_OutsidePixelIgnored ==
    (last.op = "draw_pixel" /\ ~InCanvas(pix_map, last.args.x, last.args.y))
        => (last.ret = "Ok" /\ pix_map.data = pre)

\* a pixel far outside a canvas that already holds a drawing
C1_Witness ==
    /\ last.op = "draw_pixel"
    /\ last.args.x = Big /\ last.args.y = -1
    /\ last.ret = "Ok"
    /\ pre # Blank

\* the pixels of rectangle R = [top_left, bottom_right): width and height are
\* the corner differences
InRectangle(rectangle, px, py) ==
    /\ rectangle.top_left.x <= px /\ px < rectangle.bottom_right.x
    /\ rectangle.top_left.y <= py /\ py < rectangle.bottom_right.y

IsSolidFill(style) == style.fill_color.some /\ ~style.stroke_color.some

ZeroArea(rectangle) ==
    \/ rectangle.bottom_right.x = rectangle.top_left.x
    \/ rectangle.bottom_right.y = rectangle.top_left.y

NegativeExtent(rectangle) ==
    \/ rectangle.bottom_right.x < rectangle.top_left.x
    \/ rectangle.bottom_right.y < rectangle.top_left.y

C5_NoAbort == status # "panicked" /\ last.ret # "Panic"

\* C6: the buffer length is width * height * 4 and size() is (width, height)
\* after every sequence of calls
C6_NeverResized ==
    /\ DataLen(pix_map) = Width * Height * BytesPerPixel
    /\ Len(data) * BytesPerPixel = Width * Height * BytesPerPixel
    /\ pix_map.width = Width /\ pix_map.height = Height
    /\ size_ = [width |-> Width, height |-> Height]

\* a failed draw call after a successful one
C6_Witness ==
    /\ ndraws = MaxDraws
    /\ last.op = "draw_image" /\ last.ret = "Err"
    /\ pre # Blank

\* the path of the last styled shape
ShapePath ==
    CASE last.op = "draw_line" -> convert_line_path(last.args.line).v
      [] last.op = "draw_rectangle" -> convert_rect_path(last.args.rectangle).v
      [] last.op = "draw_circle" -> convert_circle_path(last.args.circle).v

FilledAndStroked ==
    /\ IsShape(last.op) /\ last.ret = "Ok"
    /\ last.args.style.fill_color.some /\ last.args.style.stroke_color.some

\* C7 as stated: every pixel covered by both the fill and the stroke of one
\* styled shape ends with the stroke colour
C7_StrokeColourWins ==
    FilledAndStroked =>
        \A i \in PixelIndices :
            LET px == PixelX(pix_map, i)
                py == PixelY(pix_map, i)
            IN  (/\ FillCoverage(ShapePath, px, py) # "none"
                 /\ StrokeCoverage(ShapePath, last.args.style.stroke_width, px, py) # "none")
                    => pix_map.data[i] = <<rgba(last.args.style.stroke_color.v)>>

\* C7 amended: the fill pass is applied before the stroke pass: every pixel is
\* the stroke colour composited over the result of the fill, so a pixel the
\* stroke covers fully ends with the stroke colour and a pixel the anti-aliased
\* stroke covers partly ends with the stroke colour blended over the filled pixel
C7_FillThenStroke ==
    FilledAndStroked =>
        \A i \in PixelIndices :
            LET px == PixelX(pix_map, i)
                py == PixelY(pix_map, i)
                fc == FillCoverage(ShapePath, px, py)
                sc == StrokeCoverage(ShapePath, last.args.style.stroke_width, px, py)
                filled == Blend(pre[i], rgba(last.args.style.fill_color.v), fc)
            IN  /\ sc = "full" => pix_map.data[i] = <<rgba(last.args.style.stroke_color.v)>>
                /\ sc = "partial" =>
                      pix_map.data[i] = Append(filled, rgba(last.args.style.stroke_color.v))
                /\ sc = "none" => pix_map.data[i] = filled

\* a shape with a pixel under both passes that the stroke covers fully and that
\* ends with the stroke colour, and a filled pixel that the stroke covers partly
\* and that ends blended
C7_Witness ==
    /\ FilledAndStroked
    /\ \E i, j \in PixelIndices :
          /\ FillCoverage(ShapePath, PixelX(pix_map, i), PixelY(pix_map, i)) # "none"
          /\ StrokeCoverage(ShapePath, last.args.style.stroke_width,
                            PixelX(pix_map, i), PixelY(pix_map, i)) = "full"
          /\ pix_map.data[i] = <<rgba(last.args.style.stroke_color.v)>>
          /\ FillCoverage(ShapePath, PixelX(pix_map, j), PixelY(pix_map, j)) = "full"
          /\ StrokeCoverage(ShapePath, last.args.style.stroke_width,
                            PixelX(pix_map, j), PixelY(pix_map, j)) = "partial"
          /\ pix_map.data[j] = <<rgba(last.args.style.fill_color.v),
                                 rgba(last.args.style.stroke_color.v)>>

Byte == 0 .. 255

\* C8: the colour conversion gives every colour one quadruple of bytes whose
\* alpha is 255, and the quadruple of a colour never changes between calls
C8_ConversionTotal ==
    /\ [](\A c \in Colors :
            /\ Len(rgba(c)) = 4
            /\ \A k \in 1 .. 4 : rgba(c)[k] \in Byte
            /\ rgba(c)[4] = 255
            /\ convert_color_to_paint(c).color[4] = 255)
    /\ [][\A c \in Colors : rgba(c)' = rgba(c)]_vars

\* a pixel drawn inside the canvas holds the converted colour
C8_Witness ==
    /\ last.op = "draw_pixel" /\ last.ret = "Ok"
    /\ InCanvas(pix_map, last.args.x, last.args.y)
    /\ pix_map.data[PixelIndex(pix_map, last.args.x, last.args.y)] = <<rgba(last.args.color)>>
    /\ ndraws = MaxDraws

\* C9: a successful draw_image overwrites every destination pixel of the block
\* inside the canvas with the converted source pixel and leaves the rest unchanged
C9_ImageOverwrites ==
    (last.op = "draw_image" /\ last.ret = "Ok") =>
        \A i \in PixelIndices :
            LET sx == PixelX(pix_map, i) - last.args.top_left.x
                sy == PixelY(pix_map, i) - last.args.top_left.y
                image == last.args.image
            IN  pix_map.data[i] =
                    IF 0 <= sx /\ sx < image.width /\ 0 <= sy /\ sy < image.height
                    THEN <<rgba(image.pixels[sy * image.width + sx + 1])>>
                    ELSE pre[i]

\* an image partly outside the canvas drawn over pixels that held something else
C9_Witness ==
    /\ last.op = "draw_image" /\ last.ret = "Ok"
    /\ last.args.top_left.x < 0
    /\ \E i, j \in PixelIndices :
          /\ pre[i] # <<TRANSPARENT>> /\ pix_map.data[i] # pre[i]
          /\ pre[j] # <<TRANSPARENT>> /\ pix_map.data[j] = pre[j]

HasOutlinedGlyph(text) == \E k \in 1 .. Len(text) : Outline(text[k]) # << >>

\* the passes a styled text run is said to paint, in order
StatedPasses(style, text, width) ==
    (IF style.text_color.some /\ HasOutlinedGlyph(text) THEN <<"glyphs">> ELSE << >>)
    \o (IF style.background_color.some /\ width # 0 THEN <<"background">> ELSE << >>)
    \o (IF resolve_decoration_color(style, style.strikethrough_color).some
        THEN <<"strikethrough">> ELSE << >>)
    \o (IF resolve_decoration_color(style, style.underline_color).some
        THEN <<"underline">> ELSE << >>)

\* C10: draw_string fills the traced glyph outlines in the text colour, then
\* paints the background, the strikethrough and the underline, in this order
C10_TextPassesInOrder ==
    (last.op = "draw_string" /\ last.ret = "Ok") =>
        last.passes = StatedPasses(last.args.style, last.args.text, last.width)

\* a text whose glyphs all lack a pixel bounding box
OnlyWhitespace(text) == \A k \in 1 .. Len(text) : Outline(text[k]) = << >>

\* the sum of the advance widths of a text's glyphs, in half pixels
AdvanceSum(text, font_size) == CaretAt(text, Len(text) + 1, font_size)

\* the width measure_string reports for the text of the last draw_string call
MeasuredWidth ==
    measure_string(last.args.style, last.args.text,
                   last.args.position).bounding_box.size.width

\* C11: for a text made only of glyphs without a bounding box (the empty text
\* included), draw_string traces no path segment, and both the width it uses
\* and the width measure_string reports are the sum of the advance widths,
\* rounded up to whole pixels (0 for the empty text)
C11_WhitespaceAdvances ==
    (last.op = "draw_string" /\ OnlyWhitespace(last.args.text)) =>
        /\ last.path = << >>
        /\ last.width = Ceil(AdvanceSum(last.args.text, last.args.style.font_size))
        /\ MeasuredWidth = Ceil(AdvanceSum(last.args.text, last.args.style.font_size))

\* C13: the width of the rectangles draw_string paints is the width
\* measure_string reports for the same text and style
C13_DecorationWidthMeasured ==
    last.op = "draw_string" => last.width = MeasuredWidth

\* C15: the point draw_string returns is measure_string's next_position: the
\* start position moved right by the measured width, y unchanged
C15_ReturnsNextPosition ==
    last.op = "draw_string" =>
        last.p = measure_string(last.args.style, last.args.text,
                                last.args.position).next_position

IsDraw(op) ==
    op \in {"draw_pixel", "draw_line", "draw_rectangle", "draw_circle", "draw_image"}

\* C14: when a draw call of the display returns an error, the pixel buffer is
\* what it was before the call
C14_ErrorLeavesBuffer ==
    (IsDraw(last.op) /\ last.ret = "Err") => pix_map.data = pre

\* an image of the wrong length is refused at a place inside a canvas that is
\* already painted, where its first pixel would change the buffer
C14_Witness ==
    /\ last.op = "draw_image" /\ last.ret = "Err"
    /\ pre # Blank /\ pix_map.data = pre
    /\ InCanvas(pix_map, last.args.top_left.x, last.args.top_left.y)
    /\ Len(last.args.image.pixels) > 0
    /\ <<rgba(last.args.image.pixels[1])>> #
           pre[PixelIndex(pix_map, last.args.top_left.x, last.args.top_left.y)]

\* the calls of one kind made on the builder, in order
CallsOf(op) == SelectSeq(calls, LAMBDA c : c.op = op)

\* the style a builder is said to hold after its calls: the family given to
\* new(), the colour of the last text_color call (None without one) and the
\* size of the last pixel_size call (0 without one)
StatedStyle ==
    [font_family |-> calls[1].font_family,
     text_color |-> IF CallsOf("text_color") = << >> THEN None
                    ELSE Some(CallsOf("text_color")[Len(CallsOf("text_color"))].text_color),
     pixel_size |-> IF CallsOf("pixel_size") = << >> THEN 0
                    ELSE CallsOf("pixel_size")[Len(CallsOf("pixel_size"))].pixel_size]

\* C12: a built style has the family given to new(), text_color None and
\* pixel_size 0 unless set; each setter changes its own field only, so after
\* text_color(c) and pixel_size(n) in either order the built style equals
\* FontStyle::new(f, c, n)
C12_BuilderFields ==
    /\ font_style_builder.some => font_style_builder.v.style = StatedStyle
    /\ font_style.some =>
          /\ font_style.v = StatedStyle
          /\ (Len(calls) = 1) =>
                font_style.v = [font_family |-> calls[1].font_family,
                                text_color |-> None, pixel_size |-> 0]
          /\ (/\ Len(calls) = 3
              /\ calls[2].op = "text_color" /\ calls[3].op = "pixel_size") =>
                font_style.v = FontStyle_new(calls[1].font_family,
                                             calls[2].text_color, calls[3].pixel_size)
          /\ (/\ Len(calls) = 3
              /\ calls[2].op = "pixel_size" /\ calls[3].op = "text_color") =>
                font_style.v = FontStyle_new(calls[1].font_family,
                                             calls[3].text_color, calls[2].pixel_size)

\* a style built after pixel_size(n), n > 0, and then text_color(c)
C12_Witness ==
    /\ font_style.some
    /\ Len(calls) = 3
    /\ calls[2].op = "pixel_size" /\ calls[2].pixel_size > 0
    /\ calls[3].op = "text_color"
    /\ font_style.v = FontStyle_new(calls[1].font_family, calls[3].text_color,
                                    calls[2].pixel_size)

----------------------------------------------------------------------------

Next ==
    \/ draw_pixel
    \/ draw_line
    \/ draw_rectangle
    \/ draw_circle
    \/ draw_image
    \/ flip

Spec == Init /\ [][Next]_vars

====
